---- MODULE Spec2Model ----
(***************************************************************************)
(* OAuth access-token lifecycle of the class-registration backend.         *)
(*                                                                         *)
(* The credential store is the Token collection (models/token.models.js).  *)
(* getValidAccessToken exists in two shapes in the repository:             *)
(*   "lt"  server.js:40-93, part_004:38-91  valid iff Date.now() < expiresAt,*)
(*         access_token checked, one try/catch around the whole body;      *)
(*   "gt"  server.js:525-559, 646-680, 943-976, part_003:93-130            *)
(*         expired iff Date.now() > expiresAt, try/catch around the        *)
(*         refresh only.                                                   *)
(* GET /auth/callback exists in two shapes:                                *)
(*   "append"  server.js:482-522, part_003:50-90   new Token(..).save()    *)
(*   "upsert"  server.js:771-812   Token.findOneAndUpdate({}, .., upsert)  *)
(* Every await is a step boundary: other requests and the clock may move   *)
(* between two steps of one call.                                          *)
(*                                                                         *)
(* Spec is the token lifecycle: concurrent getValidAccessToken calls and   *)
(* authorization callbacks over one store. HandlerSpec is the CRM routes   *)
(* (contact search, update, create), each around one getValidAccessToken   *)
(* call, followed from the arrival of a request to its HTTP response.      *)
(***************************************************************************)
EXTENDS Integers, Sequences, FiniteSets, TLC

\* ---------------------------------------------------------------- bounds
\* requests served in one run
MaxOps == 2

\* ------------------------------------------------------ program constants
MsPerSecond == 1000
\* a response or document field that is absent (undefined in JS, falsy)
Missing == -1
\* Date.now() + undefined * 1000
NaN == -2

Procs == {"r1", "r2"}
GvatVariants == {"lt", "gt"}
CallbackVariants == {"append", "upsert"}
\* the instants (milliseconds) at which the steps of a run read the clock
Instants == {0, 1, 60 * MsPerSecond}
\* expires_in values (seconds) the authorization server may declare
ExpiresIn == {0, 120}

NoTokensMsg == "No tokens found in the database"
RefreshFailedMsg == "Failed to refresh access token"
NoAccessTokenMsg == "HubSpot refresh failed: No new access token"
\* rejections raised by the libraries: axios (network, non-2xx), mongoose
RequestFailedMsg == "request failed"
StoreErrorMsg == "store error"
\* thrown by the calendar services
MissingEnvMsg == "Missing Microsoft env vars"
NotConnectedMsg == "Microsoft account not connected. Visit /ms-auth/login first."
UnknownLabelMsg == "Unknown time label"
\* the two shapes of services/outlookService.js and the route that logs in
ClientCredentials == "createOutlookEvent part_001:122"
Delegated == "createOutlookEvent part_002:93"
MsAuthCallback == "GET /ms-auth/callback microsoftRoutes.js:18"
EventVariants == {ClientCredentials, Delegated}
\* process.env before the services are loaded, and what it may hold then:
\* the three MSAL credentials, the calendar owner's address
NotLoaded == [loaded |-> FALSE, creds |-> FALSE, owner |-> FALSE]
Envs == {[loaded |-> TRUE, creds |-> c, owner |-> o] : c, o \in BOOLEAN}
\* the arguments of a createOutlookEvent call; NoArgs when no call is running
NoArgs == [dateISO |-> FALSE, timeLabel |-> "none"]
EventArgs == {[dateISO |-> TRUE, timeLabel |-> l] :
                l \in {"missing", "unknown", "known"}}
             \cup {[dateISO |-> FALSE, timeLabel |-> "known"]}

\* Token.findOne() on an empty collection: null
NoDoc == [id |-> 0, accessToken |-> Missing, refreshToken |-> Missing,
          expiresAt |-> Missing, updatedAt |-> Missing]
NoResp == [status |-> "none", access_token |-> Missing,
           refresh_token |-> Missing, expires_in |-> Missing]

VARIABLES
  store,      \* the Token collection: sequence of documents, in insertion order
  now,        \* Date.now()
  ops,        \* number of operations started so far
  issued,     \* number of token responses the authorization server has issued
  pc,         \* per request: position in its handler
  variant,    \* per request: which shape of the code it runs
  token,      \* per request: the document loaded by Token.findOne()
  loaded,     \* per request: the document as it was loaded (before assignments)
  resp,       \* per request: the token endpoint's response
  outcome,    \* per request: "pending", "returned", or the error message thrown
  cause,      \* per request: message of the error first thrown (the one logged)
  result,     \* per request: the access token returned
  httpStatus, \* per request: status of the HTTP response sent by a route
  responses,  \* per request: HTTP responses its handler has sent
  reqCount,   \* per request: refresh/exchange requests sent by this call
  wrote,      \* per request: this call has written to the store
  checkedAt,  \* per request: Date.now() at the expiry comparison
  retAt,      \* per request: Date.now() at the return statement
  sent,       \* per request: the refresh_token presented in its refresh request
  route,      \* per request: the CRM route it is for, or "none"
  crm,        \* per request: the CRM calls it has sent, with their bearer tokens
  tokenCalls, \* per request: getValidAccessToken calls its handler has made
  recaptcha,  \* per request: what the captcha verification came to, or "unset"
  contactId,  \* per request: what the contact search came to, or "unset"
  failedOn,   \* the document on which a call last failed to refresh, or NoDoc
  msEnv,      \* the Microsoft settings of process.env, once the services load
  cachedAccount, \* outlookService's cachedAccount: Missing (null) or the account
  args,       \* per request: the arguments of its createOutlookEvent call
  events      \* per request: the event-creation calls it has sent

vars == <<store, now, ops, issued, pc, variant, token, loaded, resp,
          outcome, cause, result, httpStatus, responses, reqCount, wrote,
          checkedAt, retAt, sent,
          route, crm, tokenCalls, recaptcha, contactId, failedOn,
          msEnv, cachedAccount, args, events>>

locals == <<variant, token, loaded, resp, outcome, cause, result, httpStatus, responses,
            reqCount, wrote, checkedAt, retAt, sent>>

\* the state of the CRM route handlers
hvars == <<route, crm, tokenCalls, recaptcha, contactId, failedOn>>

\* the state of the calendar services
mvars == <<msEnv, cachedAccount, args, events>>

\* ------------------------------------------------------------ pure helpers

\* JS comparison of two numbers: any comparison with NaN is false
Lt(a, b) == a # NaN /\ b # NaN /\ a < b

\* StillValid with the operands of both comparisons swapped
StillValid_Swapped(v, t, n) ==
  IF v = "lt" THEN Lt(t.expiresAt, n) ELSE ~Lt(n, t.expiresAt)

\* server.js:55 / part_004:53  if (Date.now() < token.expiresAt) return ...
\* server.js:531,650,947 / part_003:100  if (Date.now() > token.expiresAt) refresh
StillValid(v, t, n) ==
  IF v = "lt" THEN Lt(n, t.expiresAt) ELSE ~Lt(t.expiresAt, n)

\* ExpiryOf that adds the lifetime in seconds to the clock in milliseconds
ExpiryOf_Seconds(n, expires_in) ==
  IF expires_in = Missing THEN NaN ELSE n + expires_in

\* Date.now() + response.data.expires_in * 1000
ExpiryOf(n, expires_in) ==
  IF expires_in = Missing THEN NaN ELSE n + expires_in * MsPerSecond

\* RefreshedDoc without the assignment to accessToken
RefreshedDoc_KeepsAccessToken(t, r, n) ==
  [t EXCEPT !.refreshToken = IF r.refresh_token # Missing THEN r.refresh_token
                             ELSE t.refreshToken,
            !.expiresAt = ExpiryOf(n, r.expires_in)]

\* RefreshedDoc without the assignment to refreshToken
RefreshedDoc_KeepsRefreshToken(t, r, n) ==
  [t EXCEPT !.accessToken = r.access_token,
            !.expiresAt = ExpiryOf(n, r.expires_in)]

\* the three assignments to the loaded document
RefreshedDoc(t, r, n) ==
  [t EXCEPT !.accessToken = r.access_token,
            !.refreshToken = IF r.refresh_token # Missing THEN r.refresh_token
                             ELSE t.refreshToken,
            !.expiresAt = ExpiryOf(n, r.expires_in)]

\* tokenSchema whose accessToken is not required
ValidDoc_AccessTokenOptional(t) ==
  /\ t.refreshToken # Missing
  /\ t.expiresAt # NaN

\* tokenSchema: accessToken, refreshToken: String required; expiresAt: Number required
ValidDoc(t) ==
  /\ t.accessToken # Missing
  /\ t.refreshToken # Missing
  /\ t.expiresAt # NaN

\* Token.findOne(): the first document of the collection, or null
FindOne(s) == IF Len(s) = 0 THEN NoDoc ELSE s[1]

\* document.save() of a loaded document: writes the document's fields (and
\* the updatedAt timestamp) to the stored document with its _id
SaveDoc(s, t, n) == [s EXCEPT ![t.id] = [t EXCEPT !.updatedAt = n]]

\* new Token({...}).save(): inserts a further document
InsertDoc(s, a, r, e, n) ==
  Append(s, [id |-> Len(s) + 1, accessToken |-> a, refreshToken |-> r,
             expiresAt |-> e, updatedAt |-> n])

\* Token.findOneAndUpdate({}, {...}, { upsert: true, new: true })
UpsertDoc(s, a, r, e, n) ==
  IF Len(s) = 0 THEN InsertDoc(s, a, r, e, n)
  ELSE [s EXCEPT ![1] = [@ EXCEPT !.accessToken = a, !.refreshToken = r,
                                  !.expiresAt = e, !.updatedAt = n]]

\* responses the token endpoint can give to the k-th request it answers
Responses(k) ==
  {[status |-> "err", access_token |-> Missing, refresh_token |-> Missing,
    expires_in |-> Missing]}
  \cup
  {[status |-> "ok", access_token |-> a, refresh_token |-> r, expires_in |-> e] :
     a \in {Missing, k}, r \in {Missing, k}, e \in ExpiresIn \cup {Missing}}

\* what the caller of getValidAccessToken sees when `msg` is thrown inside it
\* "lt": the outer catch rethrows everything as RefreshFailedMsg
Thrown(v, msg, inRefresh) ==
  IF v = "lt" \/ inRefresh THEN RefreshFailedMsg ELSE msg

\* ------------------------------------------------------------------- Init
\* The collection outlives the process: at startup it is empty (never
\* authorized) or holds the document a previous authorization wrote.
Init ==
  /\ store \in {<<>>} \cup
       {InsertDoc(<<>>, 1, 1, ExpiryOf(0, e), 0) : e \in ExpiresIn}
  /\ now = 0
  /\ ops = 0
  /\ issued = Len(store)
  /\ pc = [p \in Procs |-> "idle"]
  /\ variant = [p \in Procs |-> "none"]
  /\ token = [p \in Procs |-> NoDoc]
  /\ loaded = [p \in Procs |-> NoDoc]
  /\ resp = [p \in Procs |-> NoResp]
  /\ outcome = [p \in Procs |-> "pending"]
  /\ cause = [p \in Procs |-> "none"]
  /\ result = [p \in Procs |-> Missing]
  /\ httpStatus = [p \in Procs |-> 0]
  /\ responses = [p \in Procs |-> 0]
  /\ reqCount = [p \in Procs |-> 0]
  /\ wrote = [p \in Procs |-> FALSE]
  /\ checkedAt = [p \in Procs |-> 0]
  /\ retAt = [p \in Procs |-> 0]
  /\ sent = [p \in Procs |-> Missing]
  /\ route = [p \in Procs |-> "none"]
  /\ crm = [p \in Procs |-> <<>>]
  /\ tokenCalls = [p \in Procs |-> 0]
  /\ recaptcha = [p \in Procs |-> "unset"]
  /\ contactId = [p \in Procs |-> "unset"]
  /\ failedOn = NoDoc
  /\ msEnv = NotLoaded
  /\ cachedAccount = Missing
  /\ args = [p \in Procs |-> NoArgs]
  /\ events = [p \in Procs |-> <<>>]

\* the locals of a request that is not running
ResetLocals(p) ==
  /\ variant' = [variant EXCEPT ![p] = "none"]
  /\ httpStatus' = [httpStatus EXCEPT ![p] = 0]
  /\ responses' = [responses EXCEPT ![p] = 0]
  /\ reqCount' = [reqCount EXCEPT ![p] = 0]
  /\ token' = [token EXCEPT ![p] = NoDoc]
  /\ loaded' = [loaded EXCEPT ![p] = NoDoc]
  /\ resp' = [resp EXCEPT ![p] = NoResp]
  /\ outcome' = [outcome EXCEPT ![p] = "pending"]
  /\ cause' = [cause EXCEPT ![p] = "none"]
  /\ result' = [result EXCEPT ![p] = Missing]
  /\ wrote' = [wrote EXCEPT ![p] = FALSE]
  /\ checkedAt' = [checkedAt EXCEPT ![p] = 0]
  /\ retAt' = [retAt EXCEPT ![p] = 0]
  /\ sent' = [sent EXCEPT ![p] = Missing]

\* ---------------------------------------------------------------- actions

\* request slots are interchangeable: a new request takes the first free one
FreeSlot(p) ==
  /\ pc[p] = "idle"
  /\ p = "r1" \/ pc["r1"] # "idle"

\* the wall clock advances
Tick ==
  /\ \E t \in Instants : t > now /\ now' = t
  /\ UNCHANGED <<store, ops, issued, pc, locals>>

\* a request (or the startup call, server.js:118) enters getValidAccessToken
\* and issues Token.findOne()
Call(p) ==
  /\ FreeSlot(p)
  /\ ops < MaxOps
  /\ ops' = ops + 1
  /\ \E v \in GvatVariants : variant' = [variant EXCEPT ![p] = v]
  /\ pc' = [pc EXCEPT ![p] = "load"]
  /\ UNCHANGED <<store, now, issued, token, loaded, resp, outcome,
                 cause, result, httpStatus, responses, reqCount, wrote, checkedAt, retAt, sent>>

\* getValidAccessToken throws: the caller sees the message, the call is over
Throw(p, msg, inRefresh) ==
  /\ cause' = [cause EXCEPT ![p] = msg]
  /\ outcome' = [outcome EXCEPT ![p] = Thrown(variant[p], msg, inRefresh)]
  /\ pc' = [pc EXCEPT ![p] = "done"]

\* return token.accessToken
ReturnToken(p, t) ==
  /\ outcome' = [outcome EXCEPT ![p] = "returned"]
  /\ result' = [result EXCEPT ![p] = t.accessToken]
  /\ retAt' = [retAt EXCEPT ![p] = now]
  /\ pc' = [pc EXCEPT ![p] = "done"]
  /\ UNCHANGED cause

\* const token = await Token.findOne(): the read reaches the database
Load(p) ==
  /\ pc[p] = "load"
  /\ \/ /\ token' = [token EXCEPT ![p] = FindOne(store)]
        /\ loaded' = [loaded EXCEPT ![p] = FindOne(store)]
        /\ pc' = [pc EXCEPT ![p] = "check"]
        /\ UNCHANGED <<outcome, cause>>
     \/ \* the database is unreachable: findOne rejects
        /\ Throw(p, StoreErrorMsg, FALSE)
        /\ UNCHANGED <<token, loaded>>
  /\ UNCHANGED <<store, now, ops, issued, variant, resp, result,
                 httpStatus, responses, reqCount, wrote, checkedAt, retAt, sent>>

\* Check that presents the document's accessToken as the refresh_token
Check_SendsAccessToken(p) ==
  /\ pc[p] = "check"
  /\ checkedAt' = [checkedAt EXCEPT ![p] = now]
  /\ IF token[p] = NoDoc
       THEN /\ Throw(p, NoTokensMsg, FALSE)
            /\ UNCHANGED <<result, retAt, reqCount, sent>>
       ELSE IF StillValid(variant[p], token[p], now)
         THEN /\ ReturnToken(p, token[p])
              /\ UNCHANGED <<reqCount, sent>>
         ELSE /\ reqCount' = [reqCount EXCEPT ![p] = @ + 1]
              /\ sent' = [sent EXCEPT ![p] = token[p].accessToken]
              /\ pc' = [pc EXCEPT ![p] = "await"]
              /\ UNCHANGED <<outcome, cause, result, retAt>>
  /\ UNCHANGED <<store, now, ops, issued, variant, token, loaded, resp,
                 httpStatus, responses, wrote>>

\* Check that refuses to refresh a document on which a refresh has failed
Check_GivesUp(p) ==
  /\ pc[p] = "check"
  /\ checkedAt' = [checkedAt EXCEPT ![p] = now]
  /\ IF token[p] = NoDoc \/ token[p] = failedOn
       THEN /\ Throw(p, IF token[p] = NoDoc THEN NoTokensMsg
                         ELSE RefreshFailedMsg, FALSE)
            /\ UNCHANGED <<result, retAt, reqCount, sent>>
       ELSE IF StillValid(variant[p], token[p], now)
         THEN /\ ReturnToken(p, token[p])
              /\ UNCHANGED <<reqCount, sent>>
         ELSE /\ reqCount' = [reqCount EXCEPT ![p] = @ + 1]
              /\ sent' = [sent EXCEPT ![p] = token[p].refreshToken]
              /\ pc' = [pc EXCEPT ![p] = "await"]
              /\ UNCHANGED <<outcome, cause, result, retAt>>
  /\ UNCHANGED <<store, now, ops, issued, variant, token, loaded, resp,
                 httpStatus, responses, wrote>>

\* Check that also saves the document (touching updatedAt) on the valid path
Check_Touches(p) ==
  /\ pc[p] = "check"
  /\ checkedAt' = [checkedAt EXCEPT ![p] = now]
  /\ IF token[p] = NoDoc
       THEN /\ Throw(p, NoTokensMsg, FALSE)
            /\ UNCHANGED <<result, retAt, reqCount, sent, store, wrote>>
       ELSE IF StillValid(variant[p], token[p], now)
         THEN /\ ReturnToken(p, token[p])
              /\ store' = SaveDoc(store, token[p], now)
              /\ wrote' = [wrote EXCEPT ![p] = TRUE]
              /\ UNCHANGED <<reqCount, sent>>
         ELSE /\ reqCount' = [reqCount EXCEPT ![p] = @ + 1]
              /\ sent' = [sent EXCEPT ![p] = token[p].refreshToken]
              /\ pc' = [pc EXCEPT ![p] = "await"]
              /\ UNCHANGED <<outcome, cause, result, retAt, store, wrote>>
  /\ UNCHANGED <<now, ops, issued, variant, token, loaded, resp, httpStatus,
                 responses>>

\* the continuation after findOne: null check, expiry comparison, and either
\* the return of the stored token or the axios.post of the refresh request
Check(p) ==
  /\ pc[p] = "check"
  /\ checkedAt' = [checkedAt EXCEPT ![p] = now]
  /\ IF token[p] = NoDoc
       THEN /\ Throw(p, NoTokensMsg, FALSE)
            /\ UNCHANGED <<result, retAt, reqCount, sent>>
       ELSE IF StillValid(variant[p], token[p], now)
         THEN /\ ReturnToken(p, token[p])
              /\ UNCHANGED <<reqCount, sent>>
         ELSE /\ reqCount' = [reqCount EXCEPT ![p] = @ + 1]
              /\ sent' = [sent EXCEPT ![p] = token[p].refreshToken]
              /\ pc' = [pc EXCEPT ![p] = "await"]
              /\ UNCHANGED <<outcome, cause, result, retAt>>
  /\ UNCHANGED <<store, now, ops, issued, variant, token, loaded, resp,
                 httpStatus, responses, wrote>>

\* RefreshResponse that marks the document as expired-and-failed in the store
\* when the request is rejected
RefreshResponse_SavesOnError(p) ==
  /\ pc[p] = "await"
  /\ \E r \in Responses(issued + 1) :
       /\ resp' = [resp EXCEPT ![p] = r]
       /\ issued' = IF r.status = "ok" THEN issued + 1 ELSE issued
       /\ IF \/ r.status = "err"
             \/ (variant[p] = "lt" /\ r.access_token = Missing)
            THEN /\ Throw(p, IF r.status = "err" THEN RequestFailedMsg
                               ELSE NoAccessTokenMsg, TRUE)
                 /\ store' = SaveDoc(store, token[p], now)
                 /\ wrote' = [wrote EXCEPT ![p] = TRUE]
                 /\ UNCHANGED token
            ELSE /\ token' = [token EXCEPT ![p] = RefreshedDoc(token[p], r, now)]
                 /\ pc' = [pc EXCEPT ![p] = "save"]
                 /\ UNCHANGED <<outcome, cause, store, wrote>>
  /\ UNCHANGED <<now, ops, variant, loaded, result, httpStatus, responses,
                 reqCount, checkedAt, retAt, sent>>

\* the token endpoint answers the refresh request; the continuation checks the
\* response, assigns the three fields and calls token.save()
RefreshResponse(p) ==
  /\ pc[p] = "await"
  /\ \E r \in Responses(issued + 1) :
       /\ resp' = [resp EXCEPT ![p] = r]
       /\ issued' = IF r.status = "ok" THEN issued + 1 ELSE issued
       /\ IF \/ r.status = "err"
             \/ (variant[p] = "lt" /\ r.access_token = Missing)
            THEN /\ Throw(p, IF r.status = "err" THEN RequestFailedMsg
                               ELSE NoAccessTokenMsg, TRUE)
                 /\ UNCHANGED token
            ELSE /\ token' = [token EXCEPT ![p] = RefreshedDoc(token[p], r, now)]
                 /\ pc' = [pc EXCEPT ![p] = "save"]
                 /\ UNCHANGED <<outcome, cause>>
  /\ UNCHANGED <<store, now, ops, variant, loaded, result, httpStatus, responses,
                 reqCount, wrote, checkedAt, retAt, sent>>

\* Save that removes the credential documents when the save is rejected
Save_DeletesOnFailure(p) ==
  /\ pc[p] = "save"
  /\ \/ /\ ValidDoc(token[p])
        /\ store' = SaveDoc(store, token[p], now)
        /\ wrote' = [wrote EXCEPT ![p] = TRUE]
        /\ pc' = [pc EXCEPT ![p] = "saved"]
        /\ UNCHANGED <<outcome, cause>>
     \/ /\ Throw(p, StoreErrorMsg, TRUE)
        /\ store' = <<>>
        /\ UNCHANGED wrote
  /\ UNCHANGED <<now, ops, issued, variant, token, loaded, resp, result,
                 httpStatus, responses, reqCount, checkedAt, retAt, sent>>

\* Save that logs a rejected save and goes on to the return statement
Save_SwallowsError(p) ==
  /\ pc[p] = "save"
  /\ \/ /\ ValidDoc(token[p])
        /\ store' = SaveDoc(store, token[p], now)
        /\ wrote' = [wrote EXCEPT ![p] = TRUE]
        /\ pc' = [pc EXCEPT ![p] = "saved"]
        /\ UNCHANGED <<outcome, cause>>
     \/ /\ cause' = [cause EXCEPT ![p] = StoreErrorMsg]
        /\ pc' = [pc EXCEPT ![p] = "saved"]
        /\ UNCHANGED <<store, wrote, outcome>>
  /\ UNCHANGED <<now, ops, issued, variant, token, loaded, resp, result,
                 httpStatus, responses, reqCount, checkedAt, retAt, sent>>

\* await token.save(): schema validation, then the write reaches the database
Save(p) ==
  /\ pc[p] = "save"
  /\ \/ /\ ValidDoc(token[p])
        /\ store' = SaveDoc(store, token[p], now)
        /\ wrote' = [wrote EXCEPT ![p] = TRUE]
        /\ pc' = [pc EXCEPT ![p] = "saved"]
        /\ UNCHANGED <<outcome, cause>>
     \/ \* validation error, or the database is unreachable: save rejects
        /\ Throw(p, StoreErrorMsg, TRUE)
        /\ UNCHANGED <<store, wrote>>
  /\ UNCHANGED <<now, ops, issued, variant, token, loaded, resp, result,
                 httpStatus, responses, reqCount, checkedAt, retAt, sent>>

\* Return that does not await the save
Return_BeforeSave(p) ==
  /\ pc[p] \in {"save", "saved"}
  /\ ReturnToken(p, token[p])
  /\ UNCHANGED <<store, now, ops, issued, variant, token, loaded, resp,
                 httpStatus, responses, reqCount, wrote, checkedAt, sent>>

\* the continuation after save: return token.accessToken
Return(p) ==
  /\ pc[p] = "saved"
  /\ ReturnToken(p, token[p])
  /\ UNCHANGED <<store, now, ops, issued, variant, token, loaded, resp,
                 httpStatus, responses, reqCount, wrote, checkedAt, sent>>

\* responses of the token endpoint to an authorization-code exchange: an
\* error, or a grant; the handler destructures access_token, refresh_token
\* and expires_in from the body, of which a grant must carry only the first
CodeResponses(k) ==
  {r \in Responses(k) : r.status = "ok" => r.access_token # Missing}

\* a route handler sends its HTTP response and is over
Respond(p, code) ==
  /\ httpStatus' = [httpStatus EXCEPT ![p] = code]
  /\ responses' = [responses EXCEPT ![p] = @ + 1]
  /\ pc' = [pc EXCEPT ![p] = "done"]

\* GET /auth/callback: without a code, 400; otherwise the code exchange is sent
Callback(p) ==
  /\ FreeSlot(p)
  /\ ops < MaxOps
  /\ ops' = ops + 1
  /\ \E v \in CallbackVariants : variant' = [variant EXCEPT ![p] = v]
  /\ \E hasCode \in BOOLEAN :
       IF ~hasCode
         THEN /\ Respond(p, 400)
              /\ UNCHANGED reqCount
         ELSE /\ reqCount' = [reqCount EXCEPT ![p] = @ + 1]
              /\ pc' = [pc EXCEPT ![p] = "cb_await"]
              /\ UNCHANGED <<httpStatus, responses>>
  /\ UNCHANGED <<store, now, issued, token, loaded, resp, outcome,
                 cause, result, wrote, checkedAt, retAt, sent>>

\* CallbackResponse that records the body of a failed exchange in the store
CallbackResponse_WritesOnFailure(p) ==
  /\ pc[p] = "cb_await"
  /\ \E r \in CodeResponses(issued + 1) :
       /\ resp' = [resp EXCEPT ![p] = r]
       /\ issued' = IF r.status = "ok" THEN issued + 1 ELSE issued
       /\ IF r.status = "err"
            THEN /\ Respond(p, 500)
                 /\ store' = UpsertDoc(store, Missing, Missing, NaN, now)
                 /\ wrote' = [wrote EXCEPT ![p] = TRUE]
                 /\ UNCHANGED token
            ELSE /\ token' = [token EXCEPT ![p] =
                       [NoDoc EXCEPT !.accessToken = r.access_token,
                                     !.refreshToken = r.refresh_token,
                                     !.expiresAt = ExpiryOf(now, r.expires_in)]]
                 /\ pc' = [pc EXCEPT ![p] = "cb_save"]
                 /\ UNCHANGED <<httpStatus, responses, store, wrote>>
  /\ UNCHANGED <<now, ops, variant, loaded, outcome, cause, result,
                 reqCount, checkedAt, retAt, sent>>

\* the token endpoint answers the code exchange; on success the handler
\* computes expiresAt and issues the store write
CallbackResponse(p) ==
  /\ pc[p] = "cb_await"
  /\ \E r \in CodeResponses(issued + 1) :
       /\ resp' = [resp EXCEPT ![p] = r]
       /\ issued' = IF r.status = "ok" THEN issued + 1 ELSE issued
       /\ IF r.status = "err"
            THEN /\ Respond(p, 500)
                 /\ UNCHANGED token
            ELSE /\ token' = [token EXCEPT ![p] =
                       [NoDoc EXCEPT !.accessToken = r.access_token,
                                     !.refreshToken = r.refresh_token,
                                     !.expiresAt = ExpiryOf(now, r.expires_in)]]
                 /\ pc' = [pc EXCEPT ![p] = "cb_save"]
                 /\ UNCHANGED <<httpStatus, responses>>
  /\ UNCHANGED <<store, now, ops, variant, loaded, outcome, cause, result,
                 reqCount, wrote, checkedAt, retAt, sent>>

\* the store after the callback's write
CallbackWrite(v, s, t, n) ==
  IF v = "append"
    THEN InsertDoc(s, t.accessToken, t.refreshToken, t.expiresAt, n)
    ELSE UpsertDoc(s, t.accessToken, t.refreshToken, t.expiresAt, n)

\* whether the database accepts the callback's write: new Token(..).save()
\* validates the document against tokenSchema; findOneAndUpdate is given no
\* runValidators option, so only the cast of expiresAt to Number can reject
Writable(v, t) ==
  IF v = "append" THEN ValidDoc(t) ELSE t.expiresAt # NaN

\* the write reaches the database: 200 on success, 500 when it is rejected
\* (validation or cast error, or the database is unreachable)
CallbackSave(p) ==
  /\ pc[p] = "cb_save"
  /\ \/ /\ Writable(variant[p], token[p])
        /\ store' = CallbackWrite(variant[p], store, token[p], now)
        /\ wrote' = [wrote EXCEPT ![p] = TRUE]
        /\ Respond(p, 200)
     \/ /\ Respond(p, 500)
        /\ UNCHANGED <<store, wrote>>
  /\ UNCHANGED <<now, ops, issued, variant, token, loaded, resp, outcome,
                 cause, result, reqCount, checkedAt, retAt, sent>>

\* the request is over: its locals are discarded, its slot is free again
Finish(p) ==
  /\ pc[p] = "done"
  /\ pc' = [pc EXCEPT ![p] = "idle"]
  /\ ResetLocals(p)
  /\ UNCHANGED <<store, now, ops, issued>>

\* Finish reads and writes only the locals of the finished request, so it
\* commutes with every other step; it is taken before anything else runs.
NoneDone == \A q \in Procs : pc[q] # "done"

Next ==
  \/ \E p \in Procs : Finish(p) /\ UNCHANGED <<hvars, mvars>>
  \/ NoneDone /\ Tick /\ UNCHANGED <<hvars, mvars>>
  \/ \E p \in Procs : NoneDone /\ Call(p) /\ UNCHANGED <<hvars, mvars>>
  \/ \E p \in Procs : NoneDone /\ Load(p) /\ UNCHANGED <<hvars, mvars>>
  \/ \E p \in Procs : NoneDone /\ Check(p) /\ UNCHANGED <<hvars, mvars>>
  \/ \E p \in Procs : NoneDone /\ RefreshResponse(p) /\ UNCHANGED <<hvars, mvars>>
  \/ \E p \in Procs : NoneDone /\ Save(p) /\ UNCHANGED <<hvars, mvars>>
  \/ \E p \in Procs : NoneDone /\ Return(p) /\ UNCHANGED <<hvars, mvars>>
  \/ \E p \in Procs : NoneDone /\ Callback(p) /\ UNCHANGED <<hvars, mvars>>
  \/ \E p \in Procs : NoneDone /\ CallbackResponse(p) /\ UNCHANGED <<hvars, mvars>>
  \/ \E p \in Procs : NoneDone /\ CallbackSave(p) /\ UNCHANGED <<hvars, mvars>>

Spec == Init /\ [][Next]_vars

\* ------------------------------------------------------ CRM route handlers
\* The routes that read or write CRM contacts. Each obtains the access token
\* with one getValidAccessToken call, searches the contact by e-mail and then
\* updates it or, where the route does so, creates it.
UpdateContact == "PATCH /api/update-contact server.js:328"
IntroPayment == "POST /api/intro-to-ai-payment server.js:815"
IntroPaymentUpdate == "POST /api/intro-to-ai-payment server.js:978"
IntroPayment3 == "POST /api/intro-to-ai-payment part_003:133"
IntroPayment4 == "POST /api/intro-to-ai-payment part_004:154"
Routes == {UpdateContact, IntroPayment, IntroPaymentUpdate, IntroPayment3,
           IntroPayment4}

\* routes that await verifyRecaptcha first
VerifiesCaptcha(r) == r \in {UpdateContact, IntroPayment, IntroPayment4}
\* the route that answers 400 unless every form field is filled in
ChecksFields(r) == r = IntroPayment3
\* the shape of getValidAccessToken defined next to the route
GvatOf(r) == IF r \in {UpdateContact, IntroPayment4} THEN "lt" ELSE "gt"
\* routes that create the contact when the search finds none (the others: 404)
CreatesContact(r) == r \in {IntroPayment, IntroPayment3, IntroPayment4}

\* an outbound CRM call and the bearer token in its Authorization header
CrmCall(kind, bearer) == [kind |-> kind, bearer |-> bearer]

\* const accessToken = await getValidAccessToken()
EnterGvat(p, r) ==
  /\ variant' = [variant EXCEPT ![p] = GvatOf(r)]
  /\ tokenCalls' = [tokenCalls EXCEPT ![p] = @ + 1]
  /\ pc' = [pc EXCEPT ![p] = "load"]
  /\ UNCHANGED <<httpStatus, responses>>

\* a request for a CRM route arrives: the handler runs up to its first await.
\* A handler shares nothing with other requests but the store, and the
\* interleavings of the token steps of concurrent requests are those of Spec:
\* here requests are followed one at a time, from arrival to response.
Request(p) ==
  /\ FreeSlot(p)
  /\ \A q \in Procs : pc[q] = "idle"
  /\ ops < MaxOps
  /\ ops' = ops + 1
  /\ \E r \in Routes :
       /\ route' = [route EXCEPT ![p] = r]
       /\ IF VerifiesCaptcha(r)
            THEN /\ pc' = [pc EXCEPT ![p] = "captcha"]
                 /\ UNCHANGED <<variant, tokenCalls, httpStatus, responses>>
            ELSE \E filled \in (IF ChecksFields(r) THEN BOOLEAN ELSE {TRUE}) :
                   IF filled THEN EnterGvat(p, r)
                   ELSE /\ Respond(p, 400)
                        /\ UNCHANGED <<variant, tokenCalls>>
  /\ UNCHANGED <<store, now, issued, token, loaded, resp, outcome, cause,
                 result, reqCount, wrote, checkedAt, retAt, sent, crm, recaptcha,
                 contactId, failedOn>>

\* verifyRecaptcha that resolves to true when the verification call errors
VerifyRecaptcha_FailsOpen(answer) == answer # "failure"

\* verifyRecaptcha: response.data.success of siteverify; false from the catch
\* when the call itself fails
VerifyRecaptcha(answer) == answer = "success"

\* verifyRecaptcha resolves; if (!recaptchaValid) return res.status(400)
CaptchaResponse(p) ==
  /\ pc[p] = "captcha"
  /\ \E answer \in {"success", "failure", "error"} :
       /\ recaptcha' = [recaptcha EXCEPT ![p] = answer]
       /\ IF VerifyRecaptcha(answer) THEN EnterGvat(p, route[p])
          ELSE /\ Respond(p, 400)
               /\ UNCHANGED <<variant, tokenCalls>>
  /\ UNCHANGED <<store, now, ops, issued, token, loaded, resp, outcome, cause,
                 result, reqCount, wrote, checkedAt, retAt, sent, route, crm,
                 contactId, failedOn>>

\* getValidAccessToken has settled and the handler has not gone on yet
TokenSettled(p) == route[p] # "none" /\ pc[p] = "done" /\ httpStatus[p] = 0

\* AfterToken whose catch falls back to the accessToken of the loaded document
AfterToken_FallsBack(p) ==
  /\ TokenSettled(p)
  /\ IF outcome[p] = "returned" \/ loaded[p] # NoDoc
       THEN /\ crm' = [crm EXCEPT ![p] = Append(@, CrmCall("search",
                         IF outcome[p] = "returned" THEN result[p]
                         ELSE loaded[p].accessToken))]
            /\ pc' = [pc EXCEPT ![p] = "h_search"]
            /\ UNCHANGED <<httpStatus, responses, failedOn>>
       ELSE /\ Respond(p, 500)
            /\ UNCHANGED <<crm, failedOn>>
  /\ UNCHANGED <<store, now, ops, issued, variant, token, loaded, resp, outcome,
                 cause, result, reqCount, wrote, checkedAt, retAt, sent, route,
                 tokenCalls, recaptcha, contactId>>

\* the continuation of the handler after getValidAccessToken: with the token
\* it sends the contact search; a throw lands in the handler's catch (500)
AfterToken(p) ==
  /\ TokenSettled(p)
  /\ IF outcome[p] = "returned"
       THEN /\ crm' = [crm EXCEPT ![p] = Append(@, CrmCall("search", result[p]))]
            /\ pc' = [pc EXCEPT ![p] = "h_search"]
            /\ UNCHANGED <<httpStatus, responses, failedOn>>
       ELSE /\ Respond(p, 500)
            /\ failedOn' = IF outcome[p] = RefreshFailedMsg /\ sent[p] # Missing
                             THEN loaded[p] ELSE failedOn
            /\ UNCHANGED crm
  /\ UNCHANGED <<store, now, ops, issued, variant, token, loaded, resp, outcome,
                 cause, result, reqCount, wrote, checkedAt, retAt, sent, route,
                 tokenCalls, recaptcha, contactId>>

\* SearchResponse whose 404 is not followed by return: the handler goes on to
\* the update and answers a second time
SearchResponse_NoReturn(p) ==
  /\ pc[p] = "h_search"
  /\ \E answer \in {"err", "found", "none"} :
       IF answer = "err"
         THEN /\ Respond(p, 500)
              /\ UNCHANGED <<crm, contactId>>
         ELSE /\ crm' = [crm EXCEPT ![p] = Append(@, CrmCall(
                           IF answer = "found" \/ ~CreatesContact(route[p])
                             THEN "update" ELSE "create",
                           result[p]))]
              /\ contactId' = [contactId EXCEPT ![p] = answer]
              /\ pc' = [pc EXCEPT ![p] = "h_write"]
              /\ IF answer = "none" /\ ~CreatesContact(route[p])
                   THEN /\ httpStatus' = [httpStatus EXCEPT ![p] = 404]
                        /\ responses' = [responses EXCEPT ![p] = @ + 1]
                   ELSE UNCHANGED <<httpStatus, responses>>
  /\ UNCHANGED <<store, now, ops, issued, variant, token, loaded, resp, outcome,
                 cause, result, reqCount, wrote, checkedAt, retAt, sent, route,
                 tokenCalls, recaptcha, failedOn>>

\* SearchResponse that tests the wrong branch: it creates a contact when the
\* search found one and updates when it found none
SearchResponse_WrongBranch(p) ==
  /\ pc[p] = "h_search"
  /\ \E answer \in {"err", "found", "none"} :
       IF answer = "err" \/ (answer = "none" /\ ~CreatesContact(route[p]))
         THEN /\ Respond(p, IF answer = "err" THEN 500 ELSE 404)
              /\ contactId' = [contactId EXCEPT ![p] =
                                 IF answer = "err" THEN @ ELSE answer]
              /\ UNCHANGED crm
         ELSE /\ crm' = [crm EXCEPT ![p] = Append(@, CrmCall(
                           IF answer = "found" THEN "create" ELSE "update",
                           result[p]))]
              /\ contactId' = [contactId EXCEPT ![p] = answer]
              /\ pc' = [pc EXCEPT ![p] = "h_write"]
              /\ UNCHANGED <<httpStatus, responses>>
  /\ UNCHANGED <<store, now, ops, issued, variant, token, loaded, resp, outcome,
                 cause, result, reqCount, wrote, checkedAt, retAt, sent, route,
                 tokenCalls, recaptcha, failedOn>>

\* SearchResponse that sends the write with the accessToken as it was loaded
SearchResponse_StaleBearer(p) ==
  /\ pc[p] = "h_search"
  /\ \E answer \in {"err", "found", "none"} :
       IF answer = "err" \/ (answer = "none" /\ ~CreatesContact(route[p]))
         THEN /\ Respond(p, IF answer = "err" THEN 500 ELSE 404)
              /\ contactId' = [contactId EXCEPT ![p] =
                                 IF answer = "err" THEN @ ELSE answer]
              /\ UNCHANGED crm
         ELSE /\ crm' = [crm EXCEPT ![p] = Append(@, CrmCall(
                           IF answer = "found" THEN "update" ELSE "create",
                           loaded[p].accessToken))]
              /\ contactId' = [contactId EXCEPT ![p] = answer]
              /\ pc' = [pc EXCEPT ![p] = "h_write"]
              /\ UNCHANGED <<httpStatus, responses>>
  /\ UNCHANGED <<store, now, ops, issued, variant, token, loaded, resp, outcome,
                 cause, result, reqCount, wrote, checkedAt, retAt, sent, route,
                 tokenCalls, recaptcha, failedOn>>

\* the CRM answers the contact search: on an error 500; with a contact the
\* handler sends the update; without one it sends the create or answers 404.
\* The write carries the accessToken obtained before the search.
SearchResponse(p) ==
  /\ pc[p] = "h_search"
  /\ \E answer \in {"err", "found", "none"} :
       IF answer = "err" \/ (answer = "none" /\ ~CreatesContact(route[p]))
         THEN /\ Respond(p, IF answer = "err" THEN 500 ELSE 404)
              /\ contactId' = [contactId EXCEPT ![p] =
                                 IF answer = "err" THEN @ ELSE answer]
              /\ UNCHANGED crm
         ELSE /\ crm' = [crm EXCEPT ![p] = Append(@, CrmCall(
                           IF answer = "found" THEN "update" ELSE "create",
                           result[p]))]
              /\ contactId' = [contactId EXCEPT ![p] = answer]
              /\ pc' = [pc EXCEPT ![p] = "h_write"]
              /\ UNCHANGED <<httpStatus, responses>>
  /\ UNCHANGED <<store, now, ops, issued, variant, token, loaded, resp, outcome,
                 cause, result, reqCount, wrote, checkedAt, retAt, sent, route,
                 tokenCalls, recaptcha, failedOn>>

\* the CRM answers the update or create: 200, or 500 from the catch
WriteResponse(p) ==
  /\ pc[p] = "h_write"
  /\ \E ok \in BOOLEAN : Respond(p, IF ok THEN 200 ELSE 500)
  /\ UNCHANGED <<store, now, ops, issued, variant, token, loaded, resp, outcome,
                 cause, result, reqCount, wrote, checkedAt, retAt, sent, hvars>>

\* the handler has sent its HTTP response
Responded(p) == pc[p] = "done" /\ httpStatus[p] # 0

\* the request is over
FinishRequest(p) ==
  /\ Responded(p)
  /\ Finish(p)
  /\ route' = [route EXCEPT ![p] = "none"]
  /\ crm' = [crm EXCEPT ![p] = <<>>]
  /\ tokenCalls' = [tokenCalls EXCEPT ![p] = 0]
  /\ recaptcha' = [recaptcha EXCEPT ![p] = "unset"]
  /\ contactId' = [contactId EXCEPT ![p] = "unset"]
  /\ UNCHANGED failedOn

\* ------------------------------------------------------- calendar services
\* services/outlookService.js in its two shapes (client credentials: the
\* service's own token; delegated: the token of the account that logged in)
\* and the route that completes the login. Calls are followed one at a time.

\* what the calendar steps leave alone
MsFrame ==
  UNCHANGED <<store, now, issued, token, loaded, resp, cause, wrote, checkedAt,
              retAt, sent, hvars, msEnv>>

\* the services are loaded, before any request is served: they read the
\* Microsoft settings from process.env
LoadModule ==
  /\ msEnv = NotLoaded
  /\ ops = 0
  /\ \A q \in Procs : pc[q] = "idle"
  /\ msEnv' \in Envs
  /\ UNCHANGED <<store, now, ops, issued, pc, locals, hvars, cachedAccount,
                 args, events>>

\* the account of a successful login; its scopes include openid, so the
\* result of the code exchange carries the account
Account == 1
\* the access token Microsoft issues (each event-creation call is recorded
\* by the token it bears), and the event the calendar API returns
GraphToken == 1
CreatedEvent == 1

\* a calendar operation starts
MsEnter(p, v) ==
  /\ FreeSlot(p)
  /\ \A q \in Procs : pc[q] = "idle"
  /\ msEnv.loaded
  /\ ops < MaxOps
  /\ ops' = ops + 1
  /\ variant' = [variant EXCEPT ![p] = v]

\* the operation is over with this outcome and this return value
Settle(p, out, value) ==
  /\ outcome' = [outcome EXCEPT ![p] = out]
  /\ result' = [result EXCEPT ![p] = value]
  /\ pc' = [pc EXCEPT ![p] = "done"]

\* GET /ms-auth/callback: handleAuthCode(code); getMsalApp throws when the
\* credentials are missing, otherwise acquireTokenByCode is sent
MsCallbackRequest(p) ==
  /\ MsEnter(p, MsAuthCallback)
  /\ IF msEnv.creds
       THEN /\ reqCount' = [reqCount EXCEPT ![p] = @ + 1]
            /\ pc' = [pc EXCEPT ![p] = "ms_code"]
            /\ UNCHANGED <<outcome, httpStatus, responses>>
       ELSE /\ outcome' = [outcome EXCEPT ![p] = MissingEnvMsg]
            /\ Respond(p, 500)
            /\ UNCHANGED reqCount
  /\ UNCHANGED <<result, cachedAccount, args, events>>
  /\ MsFrame

\* acquireTokenByCode settles: cachedAccount = result.account and the route
\* answers 200, or the rejection reaches the route's catch, which answers 500
HandleAuthCodeResponse(p) ==
  /\ pc[p] = "ms_code"
  /\ \E ok \in BOOLEAN :
       IF ok THEN /\ cachedAccount' = Account
                  /\ outcome' = [outcome EXCEPT ![p] = "returned"]
                  /\ Respond(p, 200)
       ELSE /\ outcome' = [outcome EXCEPT ![p] = RequestFailedMsg]
            /\ Respond(p, 500)
            /\ UNCHANGED cachedAccount
  /\ UNCHANGED <<ops, variant, result, reqCount, args, events>>
  /\ MsFrame

\* getAccessToken that asks for a token without looking at cachedAccount
GetAccessToken_NoAccountCheck(env, account) ==
  IF ~env.creds THEN MissingEnvMsg ELSE "request"

\* getAccessToken (delegated) up to its await: what it throws, or "request"
\* when it sends acquireTokenSilent
GetAccessToken(env, account) ==
  IF ~env.creds THEN MissingEnvMsg
  ELSE IF account = Missing THEN NotConnectedMsg
  ELSE "request"

\* createOutlookEvent (delegated) up to its first await
DelegatedPreflight(env, account, a) ==
  IF a.timeLabel # "known" THEN UnknownLabelMsg
  ELSE GetAccessToken(env, account)

\* createOutlookEvent (client credentials) up to its first await: the early
\* return null, or "request" when getGraphClient asks for the token
ClientCredentialsPreflight(env, a) ==
  IF ~env.owner \/ ~env.creds \/ ~a.dateISO \/ a.timeLabel # "known"
    THEN "returned"
    ELSE "request"

\* a failure that is thrown to the caller in both shapes of the service
Failed_Rethrows(v, msg) == msg

\* how a failed await ends the call: the client-credentials shape catches it
\* and returns null, the delegated shape lets it reach the caller
Failed(v, msg) == IF v = ClientCredentials THEN "returned" ELSE msg

\* createOutlookEvent is called
CreateOutlookEvent(p) ==
  \E v \in EventVariants, a \in EventArgs :
    /\ MsEnter(p, v)
    /\ args' = [args EXCEPT ![p] = a]
    /\ LET early == IF v = ClientCredentials
                      THEN ClientCredentialsPreflight(msEnv, a)
                      ELSE DelegatedPreflight(msEnv, cachedAccount, a)
       IN IF early = "request"
            THEN /\ reqCount' = [reqCount EXCEPT ![p] = @ + 1]
                 /\ pc' = [pc EXCEPT ![p] = "ms_token"]
                 /\ UNCHANGED <<outcome, result>>
            ELSE /\ Settle(p, early, Missing)
                 /\ UNCHANGED reqCount
    /\ UNCHANGED <<httpStatus, responses, cachedAccount, events>>
    /\ MsFrame

\* the token request settles (acquireTokenByClientCredential, which may also
\* resolve without an access token, or acquireTokenSilent): with the token
\* the event-creation call is sent
MsTokenResponse(p) ==
  /\ pc[p] = "ms_token"
  /\ \E answer \in {"token", "error"} \cup
                   (IF variant[p] = ClientCredentials THEN {"empty"} ELSE {}) :
       IF answer = "token"
         THEN /\ events' = [events EXCEPT ![p] = Append(@, GraphToken)]
              /\ pc' = [pc EXCEPT ![p] = "ms_api"]
              /\ UNCHANGED <<outcome, result>>
         ELSE /\ Settle(p, Failed(variant[p], RequestFailedMsg), Missing)
              /\ UNCHANGED events
  /\ UNCHANGED <<ops, variant, httpStatus, responses, reqCount, cachedAccount,
                 args>>
  /\ MsFrame

\* the event-creation call settles
MsApiResponse(p) ==
  /\ pc[p] = "ms_api"
  /\ \E ok \in BOOLEAN :
       IF ok THEN Settle(p, "returned", CreatedEvent)
       ELSE Settle(p, Failed(variant[p], RequestFailedMsg), Missing)
  /\ UNCHANGED <<ops, variant, httpStatus, responses, reqCount, cachedAccount,
                 args, events>>
  /\ MsFrame

\* the createOutlookEvent call is over
FinishEvent(p) ==
  /\ variant[p] \in EventVariants
  /\ Finish(p)
  /\ args' = [args EXCEPT ![p] = NoArgs]
  /\ events' = [events EXCEPT ![p] = <<>>]
  /\ UNCHANGED <<hvars, msEnv, cachedAccount>>

HandlerNext ==
  \/ \E p \in Procs : FinishRequest(p) /\ UNCHANGED mvars
  \/ \E p \in Procs : AfterToken(p) /\ UNCHANGED mvars
  \/ NoneDone /\ Tick /\ UNCHANGED <<hvars, mvars>>
  \/ \E p \in Procs : NoneDone /\ Request(p) /\ UNCHANGED mvars
  \/ \E p \in Procs : NoneDone /\ CaptchaResponse(p) /\ UNCHANGED mvars
  \/ \E p \in Procs : NoneDone /\ Load(p) /\ UNCHANGED <<hvars, mvars>>
  \/ \E p \in Procs : NoneDone /\ Check(p) /\ UNCHANGED <<hvars, mvars>>
  \/ \E p \in Procs : NoneDone /\ RefreshResponse(p) /\ UNCHANGED <<hvars, mvars>>
  \/ \E p \in Procs : NoneDone /\ Save(p) /\ UNCHANGED <<hvars, mvars>>
  \/ \E p \in Procs : NoneDone /\ Return(p) /\ UNCHANGED <<hvars, mvars>>
  \/ \E p \in Procs : NoneDone /\ SearchResponse(p) /\ UNCHANGED mvars
  \/ \E p \in Procs : NoneDone /\ WriteResponse(p) /\ UNCHANGED mvars
  \/ LoadModule
  \/ \E p \in Procs : FinishEvent(p)
  \/ \E p \in Procs : MsCallbackRequest(p)
  \/ \E p \in Procs : HandleAuthCodeResponse(p)
  \/ \E p \in Procs : CreateOutlookEvent(p)
  \/ \E p \in Procs : MsTokenResponse(p)
  \/ \E p \in Procs : MsApiResponse(p)

\* the server serving CRM requests
HandlerSpec == Init /\ [][HandlerNext]_vars

\* HandlerSpec with the progress the runtime guarantees: the event loop runs
\* every continuation that is ready, the database driver settles every
\* operation (it has its own timeouts) and the clock advances. The axios calls
\* are made without a timeout option: nothing makes the remote servers answer.
HandlerFairness ==
  /\ WF_vars(\E p \in Procs : FinishRequest(p) /\ UNCHANGED mvars)
  /\ WF_vars(\E p \in Procs : AfterToken(p) /\ UNCHANGED mvars)
  /\ WF_vars(NoneDone /\ Tick /\ UNCHANGED <<hvars, mvars>>)
  /\ WF_vars(\E p \in Procs : NoneDone /\ Load(p) /\ UNCHANGED <<hvars, mvars>>)
  /\ WF_vars(\E p \in Procs : NoneDone /\ Check(p) /\ UNCHANGED <<hvars, mvars>>)
  /\ WF_vars(\E p \in Procs : NoneDone /\ Save(p) /\ UNCHANGED <<hvars, mvars>>)
  /\ WF_vars(\E p \in Procs : NoneDone /\ Return(p) /\ UNCHANGED <<hvars, mvars>>)

LiveHandlerSpec == HandlerSpec /\ HandlerFairness

\* ------------------------------------------------------------------ claims

\* treat tokens as expired 60 seconds before their literal expiresAt
SafetyMargin == 60 * MsPerSecond

IsCall(p) == variant[p] \in GvatVariants
Done(p) == pc[p] = "done"
Returned(p) == IsCall(p) /\ Done(p) /\ outcome[p] = "returned"
\* the call has compared the loaded document's expiry with the clock
Checked(p) == IsCall(p) /\ loaded[p] # NoDoc /\ pc[p] \notin {"load", "check"}

\* C1: a call that returns a token returns one whose record's expiresAt is
\* strictly later than the clock at the moment of return (Finish runs first,
\* so in a done state `now` is still the instant of the return).
C1_NeverReturnsExpired ==
  \A p \in Procs : Returned(p) => Lt(now, token[p].expiresAt)

\* C2: when the loaded expiresAt is more than the safety margin after the
\* clock at the comparison, the call returns the stored accessToken and has
\* sent no refresh request.
C2_Freshness ==
  \A p \in Procs :
    (Checked(p) /\ Lt(checkedAt[p] + SafetyMargin, loaded[p].expiresAt))
      => /\ Returned(p)
         /\ result[p] = loaded[p].accessToken
         /\ reqCount[p] = 0

C2_Witness ==
  \E p \in Procs :
    /\ Checked(p)
    /\ Lt(checkedAt[p] + SafetyMargin, loaded[p].expiresAt)
    /\ Returned(p)
    /\ store # <<>>
    /\ result[p] = store[loaded[p].id].accessToken

\* C3: when the loaded expiresAt is before the clock at the comparison, the
\* call has sent exactly one refresh request, whatever its answer; a token it
\* returns is the response's access_token and not the stored one, and it
\* returns that token whenever the response carried one and the save succeeded.
C3_ExpiredRefreshesOnce ==
  \A p \in Procs :
    (Checked(p) /\ Lt(loaded[p].expiresAt, checkedAt[p]))
      => /\ reqCount[p] = 1
         /\ Returned(p) => /\ resp[p].status = "ok"
                           /\ result[p] = resp[p].access_token
                           /\ result[p] # loaded[p].accessToken
         /\ (Done(p) /\ wrote[p]) => Returned(p)

C3_Witness ==
  \E p \in Procs :
    /\ Checked(p)
    /\ Lt(loaded[p].expiresAt, checkedAt[p])
    /\ Returned(p)
    /\ reqCount[p] = 1
    /\ result[p] = resp[p].access_token

\* the step in which the save of request p reaches the store
SaveStep(p) == pc[p] = "save" /\ pc'[p] = "saved"

RejectedStep(p) ==
  pc[p] = "await" /\ pc'[p] # "await" /\ resp'[p].status = "err"

\* C5: when the refresh request fails, the call fails with RefreshFailed and
\* the store is left exactly as it was: the step writes nothing and the call
\* has written nothing before.
C5_NoPartialWrites ==
  [][\A p \in Procs :
       RejectedStep(p) =>
         /\ store' = store
         /\ ~wrote'[p]
         /\ pc'[p] = "done"
         /\ outcome'[p] = RefreshFailedMsg]_vars

C5_Witness ==
  \E p \in Procs :
    /\ IsCall(p) /\ Done(p)
    /\ resp[p].status = "err"
    /\ outcome[p] = RefreshFailedMsg
    /\ store # <<>> /\ store[loaded[p].id] = loaded[p]

\* C6: a call that finds no credential record fails with NotAuthorized (the
\* "No tokens found" error), which is not the RefreshFailed error, and has sent
\* no refresh request and written nothing.
C6_UnconfiguredIsNotAuthorized ==
  \A p \in Procs :
    (IsCall(p) /\ Done(p) /\ cause[p] = NoTokensMsg)
      => /\ outcome[p] = NoTokensMsg
         /\ outcome[p] # RefreshFailedMsg
         /\ reqCount[p] = 0
         /\ ~wrote[p]

\* C7: the store holds at most one credential record.
C7_AtMostOneRecord == Len(store) <= 1

\* C8: no two concurrent calls have each sent a refresh request for the same
\* expired record.
C8_SingleFlight ==
  \A p, q \in Procs :
    (p # q /\ Checked(p) /\ Checked(q) /\ loaded[p] = loaded[q])
      => ~(reqCount[p] = 1 /\ reqCount[q] = 1)

\* C9: when the loaded expiresAt is in the future but no more than the safety
\* margin away at the comparison, the call sends the refresh request and does
\* not return the stored accessToken.
C9_SafetyMargin ==
  \A p \in Procs :
    (/\ Checked(p)
     /\ Lt(checkedAt[p], loaded[p].expiresAt)
     /\ ~Lt(checkedAt[p] + SafetyMargin, loaded[p].expiresAt))
      => /\ reqCount[p] = 1
         /\ ~(Returned(p) /\ result[p] = loaded[p].accessToken)

\* the step in which request p returns the stored token without refreshing
ValidReturnStep(p) ==
  pc[p] = "check" /\ pc'[p] = "done" /\ outcome'[p] = "returned"

\* C10: on the still-valid path the call leaves the store unchanged in every
\* field of every record, performs no save and sends no request.
C10_ValidPathFrame ==
  [][\A p \in Procs :
       ValidReturnStep(p) =>
         /\ store' = store
         /\ ~wrote'[p]
         /\ reqCount'[p] = 0
         /\ resp'[p] = NoResp]_vars

C10_Witness ==
  \E p \in Procs :
    /\ Returned(p)
    /\ resp[p] = NoResp
    /\ ~wrote[p]
    /\ store[loaded[p].id] = loaded[p]

C12_StoreFailureFails ==
  \A p \in Procs :
    (IsCall(p) /\ cause[p] = StoreErrorMsg)
      => /\ Done(p)
         /\ outcome[p] \in {StoreErrorMsg, RefreshFailedMsg}
         /\ result[p] = Missing
         /\ ~wrote[p]
         /\ loaded[p] = NoDoc => (reqCount[p] = 0 /\ resp[p] = NoResp)

C12_Witness ==
  \E p \in Procs :
    /\ IsCall(p) /\ Done(p)
    /\ cause[p] = StoreErrorMsg
    /\ resp[p].status = "ok" /\ ValidDoc(token[p])
    /\ token[p].accessToken = resp[p].access_token
    /\ outcome[p] = RefreshFailedMsg
    /\ store[loaded[p].id] = loaded[p]

\* C13: a CRM request whose getValidAccessToken call has thrown has sent no
\* CRM call (no search, update or create, with any token), goes nowhere but to
\* its response, and the response it sends has a 5xx status.
C13_TokenFailureStopsHandler ==
  \A p \in Procs :
    (route[p] # "none" /\ outcome[p] \notin {"pending", "returned"})
      => /\ crm[p] = <<>>
         /\ pc[p] = "done"
         /\ Responded(p) => httpStatus[p] \in 500..599

C13_Witness ==
  \E p \in Procs :
    /\ route[p] # "none"
    /\ Checked(p) /\ Lt(loaded[p].expiresAt, checkedAt[p])
    /\ outcome[p] = RefreshFailedMsg
    /\ Responded(p) /\ httpStatus[p] = 500
    /\ crm[p] = <<>>

\* C14: every CRM call a request has sent was sent after a getValidAccessToken
\* call of that request returned, and its bearer token is the returned value.
C14_BearerIsReturnedToken ==
  \A p \in Procs :
    \A i \in 1..Len(crm[p]) :
      /\ tokenCalls[p] >= 1
      /\ outcome[p] = "returned"
      /\ crm[p][i].bearer = result[p]

C14_Witness ==
  \E p \in Procs :
    /\ Len(crm[p]) = 2
    /\ crm[p][1].kind = "search" /\ crm[p][2].kind = "create"
    /\ reqCount[p] = 1
    /\ crm[p][2].bearer = resp[p].access_token
    /\ httpStatus[p] = 200

\* C15: a request has sent at most as many CRM calls as it has obtained tokens
\* (each token is used for one outbound call only).
C15_OneCallPerToken ==
  \A p \in Procs : Len(crm[p]) <= tokenCalls[p]

\* C16: a call that returns a token it obtained by a refresh has written the
\* store before, and the value it returns is the accessToken of the document
\* it saved, which is the response's access_token.
C16_SavedBeforeReturned ==
  \A p \in Procs :
    (IsCall(p) /\ reqCount[p] = 1 /\ outcome[p] = "returned")
      => /\ wrote[p]
         /\ result[p] = token[p].accessToken
         /\ result[p] = resp[p].access_token

C16_Witness ==
  \E p \in Procs :
    /\ Returned(p) /\ reqCount[p] = 1 /\ wrote[p]
    /\ result[p] = resp[p].access_token
    /\ store[loaded[p].id].accessToken = result[p]

\* the step in which request p processes a successful token response
\* (refresh or code exchange) and computes the new expiresAt
GrantStep(p) ==
  pc[p] \in {"await", "cb_await"} /\ pc'[p] \in {"save", "cb_save"}

\* the step in which the write of request p (save, insert or upsert) reaches
\* the store
WriteStep(p) == pc[p] \in {"save", "cb_save"} /\ wrote'[p]

\* the index in the store of the document a write of request p writes
Written(p, s) ==
  IF variant[p] \in GvatVariants THEN loaded[p].id
  ELSE IF variant[p] = "append" THEN Len(s) ELSE 1

\* C17: the expiresAt computed from a token response that declares a lifetime
\* is the clock at the moment the response is processed plus expires_in times
\* 1000, in getValidAccessToken and in the authorization callback alike, and
\* that value is the expiresAt the following write persists.
C17_ExpiryFormula ==
  [][\A p \in Procs :
       /\ (GrantStep(p) /\ resp'[p].expires_in # Missing)
            => token'[p].expiresAt = now + resp'[p].expires_in * 1000
       /\ WriteStep(p)
            => store'[Written(p, store')].expiresAt = token[p].expiresAt]_vars

C17_Witness ==
  \E p \in Procs :
    /\ variant[p] \in GvatVariants /\ pc[p] = "saved"
    /\ resp[p].expires_in = 120
    /\ now > 0
    /\ store[loaded[p].id].expiresAt = now + 120 * 1000

\* C18: every stored record has an accessToken, a refreshToken and a numeric
\* expiresAt.
C18_RecordWellFormed ==
  \A i \in 1..Len(store) :
    /\ store[i].accessToken # Missing
    /\ store[i].refreshToken # Missing
    /\ store[i].expiresAt \notin {Missing, NaN}

C21_PresentsStoredRefreshToken ==
  \A p \in Procs :
    (IsCall(p) /\ reqCount[p] = 1 /\ ~wrote[p])
      => /\ sent[p] = loaded[p].refreshToken
         /\ sent[p] = FindOne(store).refreshToken

C21_Witness ==
  \E p \in Procs :
    /\ IsCall(p) /\ reqCount[p] = 1 /\ ~wrote[p]
    /\ FindOne(store).refreshToken > 1
    /\ FindOne(store).accessToken = FindOne(store).refreshToken
    /\ sent[p] = FindOne(store).refreshToken

\* C22: every getValidAccessToken call eventually completes: a call that has
\* sent its refresh request eventually stops waiting for the answer.
C22_CallCompletes ==
  \A p \in Procs : (pc[p] = "await") ~> (pc[p] # "await")

\* C23: with a server that rotates refresh tokens (tokens are numbered in the
\* order of issue), when two concurrent calls have both saved their refreshed
\* document, the stored record carries the refreshToken and accessToken of
\* the later of the two responses.
C23_LaterResponseWins ==
  \A p, q \in Procs :
    (/\ IsCall(p) /\ IsCall(q)
     /\ pc[p] = "saved" /\ pc[q] = "saved"
     /\ loaded[p].id = loaded[q].id
     /\ resp[p].refresh_token # Missing /\ resp[q].refresh_token # Missing
     /\ resp[p].access_token < resp[q].access_token)
      => /\ store[loaded[q].id].refreshToken = resp[q].refresh_token
         /\ store[loaded[q].id].accessToken = resp[q].access_token

\* C24: whichever shape of getValidAccessToken runs, it takes the decision
\* that every shape takes for the same loaded record and the same clock: it
\* sends no refresh request exactly when the shape's comparison finds the
\* record still valid.
C24_VariantsAgree ==
  \A p \in Procs : \A v \in GvatVariants :
    Checked(p) => (reqCount[p] = 0 <=> StillValid(v, loaded[p], checkedAt[p]))

\* C25: a request whose captcha verification has failed (the verifier said
\* so, or the verification call itself failed) is answered with 400 and has
\* called getValidAccessToken at no point: no load, no refresh request, no
\* store write, no CRM call.
C25_CaptchaGate ==
  \A p \in Procs :
    recaptcha[p] \in {"failure", "error"}
      => /\ Responded(p) /\ httpStatus[p] = 400
         /\ tokenCalls[p] = 0 /\ variant[p] = "none"
         /\ loaded[p] = NoDoc /\ reqCount[p] = 0 /\ ~wrote[p]
         /\ crm[p] = <<>>

C25_Witness ==
  \E p \in Procs :
    /\ VerifiesCaptcha(route[p])
    /\ recaptcha[p] = "error"
    /\ httpStatus[p] = 400
    /\ crm[p] = <<>>
    /\ store # <<>> /\ Lt(FindOne(store).expiresAt, now)

\* the CRM writes (updates and creates) a request has sent
Writes(p) == SelectSeq(crm[p], LAMBDA c : c.kind # "search")

InHandler(p) == route[p] # "none" \/ variant[p] = MsAuthCallback

\* C27: a route handler never sends a second HTTP response, and when it is
\* over (its slot is released) it has sent exactly one, whichever path it
\* took.
C27_ExactlyOneResponse ==
  [][\A p \in Procs :
       /\ responses'[p] <= 1
       /\ (InHandler(p) /\ pc[p] # "idle" /\ pc'[p] = "idle")
            => responses[p] = 1]_vars

C27_Witness ==
  \E p \in Procs :
    /\ route[p] = UpdateContact
    /\ contactId[p] = "none"
    /\ httpStatus[p] = 404
    /\ responses[p] = 1
    /\ pc[p] = "done"

\* C28: GET /auth/callback writes to the store only after a successful code
\* exchange: without a code it answers 400 and has sent no exchange request;
\* when the exchange fails it answers 500; in both cases it has written
\* nothing.
C28_CallbackWritesOnlyAfterExchange ==
  \A p \in Procs :
    variant[p] \in CallbackVariants
      => /\ (Done(p) /\ reqCount[p] = 0) => (httpStatus[p] = 400 /\ ~wrote[p])
         /\ resp[p].status = "err" => (httpStatus[p] = 500 /\ ~wrote[p])
         /\ wrote[p] => (reqCount[p] = 1 /\ resp[p].status = "ok")

C28_Witness ==
  \E p \in Procs :
    /\ variant[p] = "upsert"
    /\ resp[p].status = "err"
    /\ httpStatus[p] = 500
    /\ store # <<>> /\ FindOne(store).accessToken = 1

\* C29: createOutlookEvent in its client-credentials shape never throws: a
\* finished call has returned, and it has returned null unless the
\* event-creation call succeeded; it has asked for no token when the
\* configuration, the date or a known time label is missing; it has sent the
\* event-creation call at most once and only after the token was acquired.
C29_NeverRaises ==
  \A p \in Procs :
    variant[p] = ClientCredentials
      => /\ Done(p) => outcome[p] = "returned"
         /\ outcome[p] \in {"pending", "returned"}
         /\ (~msEnv.owner \/ ~msEnv.creds \/ ~args[p].dateISO
               \/ args[p].timeLabel # "known")
              => (Done(p) /\ result[p] = Missing /\ reqCount[p] = 0
                    /\ events[p] = <<>>)
         /\ events[p] # <<>> => (reqCount[p] = 1 /\ events[p] = <<GraphToken>>)
         /\ result[p] # Missing => (Done(p) /\ events[p] # <<>>)
         /\ (Done(p) /\ events[p] = <<>>) => result[p] = Missing

C29_Witness ==
  \E p \in Procs :
    /\ variant[p] = ClientCredentials
    /\ Done(p)
    /\ reqCount[p] = 1
    /\ events[p] = <<>>
    /\ outcome[p] = "returned" /\ result[p] = Missing

\* a delegated createOutlookEvent call that has reached getAccessToken
\* while no account is cached
NotConnected(p) ==
  /\ variant[p] = Delegated
  /\ args[p].timeLabel = "known"
  /\ cachedAccount = Missing

\* C30 as claimed: while no account is cached, getAccessToken fails with
\* 'Microsoft account not connected' without requesting a token and no
\* calendar call is sent; once an account is cached it stays cached, and a
\* failing handleAuthCode leaves cachedAccount as it was.
C30_NotConnectedUntilLogin ==
  /\ [](\A p \in Procs :
          NotConnected(p)
            => /\ Done(p) /\ outcome[p] = NotConnectedMsg
               /\ reqCount[p] = 0 /\ events[p] = <<>>)
  /\ [][/\ cachedAccount # Missing => cachedAccount' # Missing
        /\ \A p \in Procs :
             (pc[p] = "ms_code" /\ outcome'[p] # "returned")
               => cachedAccount' = cachedAccount]_vars

\* C30 amended: while no account is cached, getAccessToken fails without
\* requesting a token, with 'Microsoft account not connected' when the
\* Microsoft credentials are configured and with 'Missing Microsoft env vars'
\* when they are not, and no calendar call is sent; once an account is cached
\* it stays cached, and a failing handleAuthCode leaves cachedAccount as it
\* was.
C30_NoTokenUntilLogin ==
  /\ [](\A p \in Procs :
          NotConnected(p)
            => /\ Done(p)
               /\ outcome[p] = IF msEnv.creds THEN NotConnectedMsg
                               ELSE MissingEnvMsg
               /\ reqCount[p] = 0 /\ events[p] = <<>>)
  /\ [][/\ cachedAccount # Missing => cachedAccount' # Missing
        /\ \A p \in Procs :
             (pc[p] = "ms_code" /\ outcome'[p] # "returned")
               => cachedAccount' = cachedAccount]_vars

C30_Witness ==
  \E p \in Procs :
    /\ NotConnected(p)
    /\ msEnv.creds
    /\ outcome[p] = NotConnectedMsg
    /\ reqCount[p] = 0

====
